---- MODULE Spec2Model ----
(***************************************************************************)
(* Messaging core of the application: the conversations /                  *)
(* conversation_participants / messages tables with their row-level        *)
(* security policies, constraint and trigger, the start_conversation       *)
(* function, and the client screens that call them.                        *)
(***************************************************************************)
EXTENDS Integers, Sequences, FiniteSets, TLC

\* ------------------------------------------------------------------ bounds
\* Conversation rows the resolver specifications create at most.
MaxConvs == 2
\* Conversation rows in the specification of the conversation screen.
MaxChats == 1
\* Message rows.
MaxMsgs == 2
\* Last tick of the clock.
MaxTime == 2
\* Calls of fetchConversations in flight at a time.
MaxFetches == 1
MaxOverlap == 2

\* ------------------------------------------------------------------ values
\* SQL NULL / JavaScript null (conversation ids and timestamps start at 1).
NULL == 0

\* Rows of the users table; every one of them can sign in.
Users == {"u1", "u2", "u3"}

\* auth.uid() of a request without a session, and a null uuid argument.
NoUser == "null"

\* A uuid that is the id of no row of users.
Ghost == "u9"

\* Who can call the API, and the uuids a caller can pass.
Callers == Users \cup {NoUser}
Targets == Users \cup {NoUser, Ghost}

\* Characters of a message text: the space U+0020, any other white space
\* (tab, line feed), and a visible character.
SP == "SP"
WS == "WS"
CH == "CH"

\* Message texts a user can type or post.
Contents == {<<>>, <<SP>>, <<WS>>, <<SP, CH>>}

\* Texts typed into the input of the conversation screen.
Drafts == {<<WS>>, <<SP, CH>>}

\* The user signed in on the device whose screens are followed; the other
\* users act on the store through the same API.
Me == "u1"

VARIABLES
  conversations,  \* table conversations: row id -> [updated_at]
  participants,   \* table conversation_participants: set of rows
  messages,       \* table messages: row id -> row
  now,            \* the clock behind now() and new Date()
  rpc,            \* start_conversation calls in progress, by caller
  last,           \* the last API request and the store's answer
  screen,         \* state of the mounted ConversationScreen
  events,         \* realtime INSERT events on their way to the screen
  marks,          \* mark-read requests of the insert handler in flight
  inbox           \* state of the mounted MessagesScreen (the conversation list)

store == <<conversations, participants, messages>>
vars == <<conversations, participants, messages, now, rpc, last, screen, events, marks, inbox>>

\* ------------------------------------------------------------------ text
RECURSIVE StripLeft(_, _)
StripLeft(s, set) ==
  IF s # <<>> /\ Head(s) \in set THEN StripLeft(Tail(s), set) ELSE s

RECURSIVE StripRight(_, _)
StripRight(s, set) ==
  IF s # <<>> /\ s[Len(s)] \in set
    THEN StripRight(SubSeq(s, 1, Len(s) - 1), set)
    ELSE s

\* String.prototype.trim(): strips every kind of white space.
JsTrim(s) == StripRight(StripLeft(s, {SP, WS}), {SP, WS})

\* SQL trim(text): strips spaces only.
SqlTrim(s) == StripRight(StripLeft(s, {SP}), {SP})

\* CONSTRAINT content_not_empty CHECK (char_length(trim(content)) > 0)
ContentNotEmpty(content) == Len(SqlTrim(content)) > 0

\* ------------------------------------------------------------------ tables
ConvIds == 1..Len(conversations)
MsgIds == 1..Len(messages)

ParticipantRow(c, u) == [conversation_id |-> c, user_id |-> u]

IsParticipant(c, u) == ParticipantRow(c, u) \in participants

\* SELECT conversation_id FROM conversation_participants WHERE user_id = auth.uid()
\* (user_id = NULL is true of no row)
ConvsOf(u) ==
  {p.conversation_id : p \in {q \in participants : u # NoUser /\ q.user_id = u}}

ParticipantsOf(c) == {p.user_id : p \in {q \in participants : q.conversation_id = c}}

\* ------------------------------------------------------------------ policies
\* An INSERT policy that forgets auth.uid() = sender_id.
MessagesInsertPolicy_AnySender(uid, row) == row.conversation_id \in ConvsOf(uid)

\* "Users can send messages to their conversations" (INSERT WITH CHECK).
MessagesInsertPolicy(uid, row) ==
  /\ uid = row.sender_id
  /\ row.conversation_id \in ConvsOf(uid)

\* A SELECT policy that only asks for a session.
MessagesSelectPolicy_AnySession(uid, row) == uid # NoUser

\* "Users can view messages in their conversations" (SELECT USING).
MessagesSelectPolicy(uid, row) == row.conversation_id \in ConvsOf(uid)

\* An UPDATE policy for the recipient, as the earlier direct_messages table
\* had ("Users can mark messages as read").
MessagesUpdatePolicy_Recipient(uid, row) ==
  /\ uid # row.sender_id
  /\ row.conversation_id \in ConvsOf(uid)

\* An UPDATE policy written like the SELECT policy: any participant.
MessagesUpdatePolicy_Participant(uid, row) == row.conversation_id \in ConvsOf(uid)

\* Row-level security is enabled on messages and no policy FOR UPDATE (or
\* FOR ALL) exists, so no row is updatable by a client role.
MessagesUpdatePolicy(uid, row) == FALSE

\* Row-level security is enabled on conversations and no policy FOR UPDATE
\* exists.
ConversationsUpdatePolicy(uid, c) == FALSE

\* Row-level security is enabled on messages and no policy FOR DELETE
\* exists.
MessagesDeletePolicy(uid, row) == FALSE

\* ------------------------------------------------------------------ store
\* AFTER INSERT ON messages: UPDATE conversations SET updated_at = now()
\* WHERE id = NEW.conversation_id.  The trigger function is not SECURITY
\* DEFINER: its UPDATE runs as the inserting role and touches only the rows
\* the UPDATE policy of conversations lets that role update.
UpdateConversationTimestampOnMessage(uid, convs, row, t) ==
  [c \in DOMAIN convs |->
     IF c = row.conversation_id /\ ConversationsUpdatePolicy(uid, c)
       THEN [convs[c] EXCEPT !.updated_at = t]
       ELSE convs[c]]

\* The row an INSERT INTO messages (conversation_id, sender_id, content)
\* builds: created_at DEFAULT now(), read_at without default.
NewMessageRow(c, sender, content, t) ==
  [conversation_id |-> c, sender_id |-> sender, content |-> content,
   created_at |-> t, read_at |-> NULL]

\* Whether the store accepts the insert: foreign key on conversations, the
\* content_not_empty check, and the INSERT policy.
InsertAccepted(uid, row) ==
  /\ row.conversation_id \in ConvIds
  /\ ContentNotEmpty(row.content)
  /\ MessagesInsertPolicy(uid, row)

\* UPDATE messages SET read_at = t WHERE id = m, as issued through the API:
\* the rows changed are those the UPDATE policy lets the caller update.
UpdateReadAt(uid, msgs, m, t) ==
  [i \in DOMAIN msgs |->
     IF i = m /\ MessagesUpdatePolicy(uid, msgs[i])
       THEN [msgs[i] EXCEPT !.read_at = t]
       ELSE msgs[i]]

\* UPDATE messages SET content = x WHERE id = m through the API.
UpdateContent(uid, msgs, m, x) ==
  [i \in DOMAIN msgs |->
     IF i = m /\ MessagesUpdatePolicy(uid, msgs[i])
       THEN [msgs[i] EXCEPT !.content = x]
       ELSE msgs[i]]

\* DELETE FROM messages WHERE id = m through the API: the rows left.
DeleteMessage(uid, msgs, m) ==
  IF MessagesDeletePolicy(uid, msgs[m])
    THEN [i \in 1..(Len(msgs) - 1) |-> IF i < m THEN msgs[i] ELSE msgs[i + 1]]
    ELSE msgs

\* ------------------------------------------------------------------ clock
Tick ==
  /\ now < MaxTime
  /\ now' = now + 1
  /\ UNCHANGED <<inbox, store, rpc, last, screen, events, marks>>

\* ------------------------------------------------------------------ resolver
Idle == [pc |-> "idle", other |-> NULL, v |-> NULL, t |-> NULL]

\* A lookup that forgets AND cp2.user_id = other_user_id.
LookupResults_CallerOnly(uid, other) ==
  IF ConvsOf(uid) = {} THEN {NULL} ELSE ConvsOf(uid)

\* SELECT c.id INTO v_conversation_id FROM conversations c JOIN cp1 ... JOIN
\* cp2 ... WHERE cp1.user_id = auth.uid() AND cp2.user_id = other_user_id
\* LIMIT 1: any one of the matching conversations (there is no ORDER BY), or
\* NULL when there is none.
LookupResults(uid, other) ==
  LET found == {c \in ConvIds :
                  /\ uid # NoUser /\ IsParticipant(c, uid)
                  /\ other # NoUser /\ IsParticipant(c, other)}
  IN  IF found = {} THEN {NULL} ELSE found

\* Whether the INSERT INTO conversation_participants of a call that found
\* nothing raises: (c, uid) twice breaks UNIQUE(conversation_id, user_id),
\* a user_id that is no row of users breaks the foreign key.  A null user_id
\* breaks neither: the column is nullable.
InsertRaises(uid, other) ==
  \/ other = uid /\ uid # NoUser
  \/ other \notin Users \cup {NoUser}

\* What start_conversation answers once the lookup has given v: the id
\* found, the id of the conversation it inserts, or NULL for a call that
\* fails.
ResolverResult(uid, other, v) ==
  IF v # NULL THEN v
  ELSE IF InsertRaises(uid, other) THEN NULL
  ELSE Len(conversations) + 1

\* IF v_conversation_id IS NULL THEN INSERT INTO conversations DEFAULT VALUES;
\* INSERT INTO conversation_participants ... END IF.  A failed call keeps
\* nothing.  cap bounds the number of conversation rows.
ResolverInserts(uid, other, v, t, cap) ==
  IF v # NULL \/ InsertRaises(uid, other)
    THEN UNCHANGED <<conversations, participants>>
    ELSE /\ Len(conversations) < cap
         /\ conversations' = Append(conversations, [created_at |-> t, updated_at |-> t])
         /\ participants' = participants \cup
              {ParticipantRow(Len(conversations) + 1, uid),
               ParticipantRow(Len(conversations) + 1, other)}

\* First statement of start_conversation: the lookup, which sees the rows
\* committed so far.  now() is the start time of the transaction.
StartConversationLookup(uid, other) ==
  /\ rpc[uid].pc = "idle"
  /\ \E v \in LookupResults(uid, other) :
       rpc' = [rpc EXCEPT ![uid] = [pc |-> "looked", other |-> other, v |-> v, t |-> now]]
  /\ UNCHANGED <<inbox, store, now, last, screen, events, marks>>

\* The rest of start_conversation and its commit.
StartConversationFinish(uid) ==
  LET call == rpc[uid]
      r == ResolverResult(uid, call.other, call.v)
  IN  /\ call.pc = "looked"
      /\ ResolverInserts(uid, call.other, call.v, call.t, MaxConvs)
      /\ rpc' = [rpc EXCEPT ![uid].pc = IF r = NULL THEN "failed" ELSE "done",
                            ![uid].v = r]
      /\ UNCHANGED <<inbox, messages, now, last, screen, events, marks>>

\* handlePress receives the answer of the call.
StartConversationReturn(uid) ==
  /\ rpc[uid].pc \in {"done", "failed"}
  /\ rpc' = [rpc EXCEPT ![uid] = Idle]
  /\ UNCHANGED <<inbox, store, now, last, screen, events, marks>>

\* A call that starts while no other call is between its lookup and its
\* commit.
SerialLookup(uid, other) ==
  /\ \A w \in Users : rpc[w].pc # "looked"
  /\ StartConversationLookup(uid, other)

\* The whole of start_conversation as one transaction, with at most cap
\* conversation rows.  No channel of the client screens listens to the two
\* tables it writes.
StartConversationAs(uid, other, cap) ==
  /\ \E v \in LookupResults(uid, other) :
       ResolverInserts(uid, other, v, now, cap)
  /\ UNCHANGED <<inbox, messages, now, rpc, last, screen, events, marks>>

\* start_conversation called by a user other than the followed device.
StartConversation(uid, other) ==
  /\ uid # Me
  /\ StartConversationAs(uid, other, MaxChats)

\* POST /rpc/start_conversation by any caller with any argument, the whole
\* function as one transaction, with its answer kept (v = NULL: an error).
\* The function is SECURITY DEFINER and does not test auth.uid().  The call
\* without a session and with a null argument is left out: its two rows
\* (c, NULL) differ in id only.
RpcStartConversation(uid, other) ==
  /\ ~(uid = NoUser /\ other = NoUser)
  /\ \E v \in LookupResults(uid, other) :
       /\ ResolverInserts(uid, other, v, now, MaxConvs)
       /\ last' = [op |-> "start", caller |-> uid, target |-> other,
                   v |-> ResolverResult(uid, other, v)]
  /\ UNCHANGED <<inbox, messages, now, rpc, screen, events, marks>>

\* "Users can add participants to their conversations" (INSERT WITH CHECK).
ParticipantsInsertPolicy(uid, row) ==
  \/ uid # NoUser /\ uid = row.user_id
  \/ row.conversation_id \in ConvsOf(uid)

\* Whether the store accepts the participant row: the foreign keys on
\* conversations and users, UNIQUE(conversation_id, user_id), the policy.
ParticipantAccepted(uid, row) ==
  /\ row.conversation_id \in ConvIds
  /\ row.user_id \in Users \cup {NoUser}
  /\ row \notin participants \/ row.user_id = NoUser
  /\ ParticipantsInsertPolicy(uid, row)

\* POST /conversation_participants by any caller with any row.
InsertParticipant(uid, c, user) ==
  LET row == ParticipantRow(c, user)
      ok == ParticipantAccepted(uid, row)
  IN  /\ participants' = IF ok THEN participants \cup {row} ELSE participants
      /\ last' = [op |-> "join", caller |-> uid, conv |-> c, user |-> user, ok |-> ok]
      /\ UNCHANGED <<inbox, conversations, messages, now, rpc, screen, events, marks>>

\* ------------------------------------------------------------------ MessagesScreen state
\* A call of fetchConversations: where it is, the rows it holds, and the
\* conversations whose count query is not answered yet.
NoFetch == [pc |-> "idle", data |-> <<>>, pending |-> {}]

\* No MessagesScreen is mounted: the useState defaults, no channel, no call
\* of fetchConversations in flight (latest: the place of the call started
\* last).
InboxOff ==
  [on |-> FALSE, notes |-> 0, fetches |-> [f \in 1..MaxOverlap |-> NoFetch],
   latest |-> 0, shown |-> <<>>, isLoading |-> TRUE]

\* The channel 'messages-changes' of the mounted MessagesScreen (event '*'
\* on table messages, no filter) gets a change of a row the subscriber may
\* select.  Changes of conversations and conversation_participants are not
\* subscribed.
InboxNotified(row) ==
  IF inbox.on /\ row.conversation_id \in ConvsOf(Me)
    THEN [inbox EXCEPT !.notes = @ + 1]
    ELSE inbox

\* The channel after an UPDATE that turned messages into msgs.
InboxAfterUpdate(msgs) ==
  IF \E m \in MsgIds : msgs[m] # messages[m] /\ inbox.on
                          /\ messages[m].conversation_id \in ConvsOf(Me)
    THEN [inbox EXCEPT !.notes = @ + 1]
    ELSE inbox

\* ------------------------------------------------------------------ messages API
\* The realtime channel of the mounted screen (event INSERT on messages,
\* filter conversation_id=eq.id) gets the new row when the subscriber may
\* select it.
Notified(row, id) ==
  IF /\ screen.sub
     /\ screen.conv = row.conversation_id
     /\ MessagesSelectPolicy(Me, row)
    THEN events \cup {id}
    ELSE events

\* The effect of an INSERT INTO messages on the store and the channel, for
\* a row that is accepted (ok) or refused.
InsertEffect(uid, row, ok) ==
  /\ IF ok
       THEN /\ Len(messages) < MaxMsgs
            /\ messages' = Append(messages, row)
            /\ conversations' =
                 UpdateConversationTimestampOnMessage(uid, conversations, row, now)
            /\ events' = Notified(row, Len(messages) + 1)
            /\ inbox' = InboxNotified(row)
       ELSE UNCHANGED <<messages, conversations, events, inbox>>

\* POST /messages by any signed-in user with any row.
InsertMessage(uid, c, sender, content) ==
  /\ LET row == NewMessageRow(c, sender, content, now)
     IN  InsertEffect(uid, row, InsertAccepted(uid, row))
  /\ UNCHANGED <<participants, now, rpc, last, screen, marks>>

\* PATCH /messages?id=eq.m with {read_at: t} by any signed-in user.
MarkRead(uid, m, t) ==
  /\ messages' = UpdateReadAt(uid, messages, m, t)
  /\ inbox' = InboxAfterUpdate(UpdateReadAt(uid, messages, m, t))
  /\ UNCHANGED <<conversations, participants, now, rpc, last, screen, events, marks>>

\* A count query without .is('read_at', null).
UnreadCount_IgnoresReadAt(uid, c) ==
  Cardinality({m \in MsgIds :
     /\ MessagesSelectPolicy(uid, messages[m])
     /\ messages[m].conversation_id = c
     /\ messages[m].sender_id # uid})

\* The unread count of fetchConversations for one conversation of the list:
\* .select('id', { count: 'exact' }).eq('conversation_id', c)
\* .is('read_at', null).neq('sender_id', uid), over the rows uid may select.
UnreadCount(uid, c) ==
  Cardinality({m \in MsgIds :
     /\ MessagesSelectPolicy(uid, messages[m])
     /\ messages[m].conversation_id = c
     /\ messages[m].read_at = NULL
     /\ messages[m].sender_id # uid})

\* "Users can view conversations they're part of" (SELECT USING).
ConversationsSelectPolicy(uid, c) == c \in ConvsOf(uid)

\* "Users can view conversation participants" (SELECT USING).
ParticipantsSelectPolicy(uid, row) == row.conversation_id \in ConvsOf(uid)

\* The requests above as the single request made to a given store, with
\* the store's answer kept.
ApiInsert(uid, c, sender, content) ==
  /\ last.op = "none"
  /\ LET row == NewMessageRow(c, sender, content, now)
         ok == InsertAccepted(uid, row)
     IN  /\ InsertEffect(uid, row, ok)
         /\ last' = [op |-> "insert", caller |-> uid, conv |-> c, sender |-> sender,
                     content |-> content, ok |-> ok]
  /\ UNCHANGED <<participants, now, rpc, screen, marks>>

ApiMarkRead(uid, m, t) ==
  /\ last.op = "none"
  /\ messages' = UpdateReadAt(uid, messages, m, t)
  /\ inbox' = InboxAfterUpdate(UpdateReadAt(uid, messages, m, t))
  /\ last' = [op |-> "mark", caller |-> uid, id |-> m, was |-> messages[m].read_at]
  /\ UNCHANGED <<conversations, participants, now, rpc, screen, events, marks>>

\* The count query fetchConversations sends for a conversation its first
\* query returned.
ApiUnreadCount(uid, c) ==
  /\ last.op = "none"
  /\ ConversationsSelectPolicy(uid, c)
  /\ last' = [op |-> "count", caller |-> uid, conv |-> c, count |-> UnreadCount(uid, c)]
  /\ UNCHANGED <<inbox, store, now, rpc, screen, events, marks>>

\* GET /conversations, /conversation_participants or /messages without a
\* filter by any caller: the rows the SELECT policy of the table shows, kept
\* as the conversation each returned row belongs to.
SelectAll(uid, table) ==
  CASE table = "conversations" ->
         {c \in ConvIds : ConversationsSelectPolicy(uid, c)}
    [] table = "conversation_participants" ->
         {q.conversation_id : q \in {r \in participants : ParticipantsSelectPolicy(uid, r)}}
    [] table = "messages" ->
         {messages[m].conversation_id : m \in {i \in MsgIds : MessagesSelectPolicy(uid, messages[i])}}

ApiSelect(uid, table) ==
  /\ last.op = "none"
  /\ last' = [op |-> "select", caller |-> uid, table |-> table,
              convs |-> SelectAll(uid, table)]
  /\ UNCHANGED <<inbox, store, now, rpc, screen, events, marks>>

\* PATCH /messages?id=eq.m with {content: x} and DELETE /messages?id=eq.m
\* by any caller, and a call of start_conversation, each as the single
\* request made to a given store.
ApiUpdateContent(uid, m, x) ==
  /\ last.op = "none"
  /\ messages' = UpdateContent(uid, messages, m, x)
  /\ last' = [op |-> "edit", caller |-> uid, id |-> m]
  /\ UNCHANGED <<inbox, conversations, participants, now, rpc, screen, events, marks>>

ApiDelete(uid, m) ==
  /\ last.op = "none"
  /\ messages' = DeleteMessage(uid, messages, m)
  /\ last' = [op |-> "delete", caller |-> uid, id |-> m]
  /\ UNCHANGED <<inbox, conversations, participants, now, rpc, screen, events, marks>>

ApiStartConversation(uid, other) ==
  /\ last.op = "none"
  /\ RpcStartConversation(uid, other)

\* ------------------------------------------------------------------ MessagesScreen
\* All the sequences that hold every element of ids once.
Orderings(ids) ==
  {p \in [1..Cardinality(ids) -> ids] :
     \A i \in DOMAIN p, j \in DOMAIN p : i # j => p[i] # p[j]}

\* A list query without .order(): the rows in any order.
ListOrders_Unordered(ids) == Orderings(ids)

\* .order('updated_at', { ascending: false }): the orders the store may
\* return the rows in; rows with equal updated_at come in any order.
ListOrders(ids) ==
  {p \in Orderings(ids) :
     \A i \in DOMAIN p, j \in DOMAIN p :
       i < j => conversations[p[i]].updated_at >= conversations[p[j]].updated_at}

\* latest_message:messages(content, created_at, sender) and, in the
\* transform, conversation.latest_message?.[0] || null: the embedded rows
\* are the messages of the conversation the caller may select, in no stated
\* order, so element 0 is any one of them, or null when there is none.
EmbeddedFirst(uid, c) ==
  LET rows == {m \in MsgIds : messages[m].conversation_id = c
                               /\ MessagesSelectPolicy(uid, messages[m])}
  IN  IF rows = {} THEN {NULL} ELSE rows

\* The useEffect of MessagesScreen with a session: fetchConversations() and
\* the subscription.
MountInbox ==
  /\ ~inbox.on
  /\ inbox' = [InboxOff EXCEPT !.on = TRUE,
                               !.latest = 1,
                               !.fetches[1] = [NoFetch EXCEPT !.pc = "query"]]
  /\ UNCHANGED <<store, now, rpc, last, screen, events, marks>>

\* The channel's handler: () => { fetchConversations(); }.  The call takes
\* the first free place among the calls in flight.
InboxHandleEvent(f) ==
  /\ inbox.on
  /\ inbox.notes > 0
  /\ inbox.fetches[f].pc = "idle"
  /\ \A g \in 1..(f - 1) : inbox.fetches[g].pc # "idle"
  /\ inbox' = [inbox EXCEPT !.notes = @ - 1,
                            !.latest = f,
                            !.fetches[f] = [NoFetch EXCEPT !.pc = "query"]]
  /\ UNCHANGED <<store, now, rpc, last, screen, events, marks>>

\* fetchConversations, the select on conversations with its embedded rows;
\* data.map then sends one count query per conversation.
InboxQuery(f) ==
  LET visible == {c \in ConvIds : ConversationsSelectPolicy(Me, c)}
  IN  /\ inbox.fetches[f].pc = "query"
      /\ \E ord \in ListOrders(visible) :
         \E first \in [visible -> MsgIds \cup {NULL}] :
           /\ \A c \in visible : first[c] \in EmbeddedFirst(Me, c)
           /\ inbox' = [inbox EXCEPT !.fetches[f] =
                [pc |-> "counts",
                 data |-> [n \in 1..Len(ord) |->
                            [id |-> ord[n],
                             updated_at |-> conversations[ord[n]].updated_at,
                             latest_message |-> first[ord[n]],
                             unread_count |-> 0]],
                 pending |-> visible]]
      /\ UNCHANGED <<store, now, rpc, last, screen, events, marks>>

\* One of the count queries of Promise.all is answered.
InboxCount(f, c) ==
  LET call == inbox.fetches[f]
  IN  /\ call.pc = "counts"
      /\ c \in call.pending
      /\ inbox' = [inbox EXCEPT !.fetches[f] =
           [call EXCEPT
              !.pending = @ \ {c},
              !.data = [n \in DOMAIN call.data |->
                          IF call.data[n].id = c
                            THEN [call.data[n] EXCEPT !.unread_count = UnreadCount(Me, c)]
                            ELSE call.data[n]]]]
      /\ UNCHANGED <<store, now, rpc, last, screen, events, marks>>

\* Promise.all resolves: setConversations(transformedData), then
\* setIsLoading(false).
InboxSet(f) ==
  LET call == inbox.fetches[f]
  IN  /\ call.pc = "counts"
      /\ call.pending = {}
      /\ inbox' = [inbox EXCEPT !.shown = call.data,
                                !.isLoading = FALSE,
                                !.fetches[f] = NoFetch]
      /\ UNCHANGED <<store, now, rpc, last, screen, events, marks>>

\* ------------------------------------------------------------------ ConversationScreen
\* A state that outlives its component: the setter always writes.
SetState_Disposed(mounted, old, new) == new

\* The setter of a useState: it writes the state of a mounted component;
\* called after the unmount it changes nothing.
SetState(mounted, old, new) == IF mounted THEN new ELSE old

\* No ConversationScreen is mounted: the useState defaults (participants,
\* messages, newMessage, isLoading, isSending), no channel (sub), no
\* fetchConversation (pc, rows, unread, k) and no handleSend (sending)
\* running.
Unmounted ==
  [conv |-> NULL, pc |-> "off", parts |-> {}, local |-> <<>>, rows |-> <<>>,
   unread |-> <<>>,
   k |-> 0, draft |-> <<>>, sending |-> <<>>, sub |-> FALSE,
   isLoading |-> TRUE, isSending |-> FALSE, toast |-> FALSE]

\* The screen as first rendered: fetchConversation has sent its first
\* query and the channel is subscribed.
Mounted(c) == [Unmounted EXCEPT !.conv = c, !.pc = "participants", !.sub = TRUE]

\* One ConversationScreen is followed at a time: the next one is opened
\* when the one before is unmounted and its calls have ended.
CanMount ==
  /\ ~screen.sub
  /\ screen.pc \in {"off", "ready"}
  /\ screen.sending = <<>>

\* A cleanup that forgets channel.unsubscribe(): events keep coming.
Unsubscribed_Leak(pending) == pending

\* channel.unsubscribe(): the events not handled yet are not delivered.
Unsubscribed(pending) == {}

\* The cleanup of the useEffect (unmount, or a change of id or session):
\* the channel is unsubscribed and the state of the component is gone.
\* fetchConversation and handleSend, if running, go on.
Unmount ==
  /\ screen.sub
  /\ screen' = [screen EXCEPT !.sub = FALSE, !.parts = {}, !.local = <<>>,
                              !.draft = <<>>, !.isLoading = TRUE,
                              !.isSending = FALSE, !.toast = FALSE]
  /\ events' = Unsubscribed(events)
  /\ UNCHANGED <<inbox, store, now, rpc, last, marks>>

\* StartChatButton.handlePress: the call, then router.push to the
\* conversation it returned; a failed call shows a toast and stays.
HandlePress(other) ==
  /\ CanMount
  /\ \E v \in LookupResults(Me, other) :
       /\ ResolverInserts(Me, other, v, now, MaxChats)
       /\ screen' = IF ResolverResult(Me, other, v) = NULL
                      THEN screen
                      ELSE Mounted(ResolverResult(Me, other, v))
  /\ UNCHANGED <<inbox, messages, now, rpc, last, events, marks>>

\* The route /messages/[id] opened for an existing conversation.
Mount(c) ==
  /\ CanMount
  /\ screen' = Mounted(c)
  /\ UNCHANGED <<inbox, store, now, rpc, last, events, marks>>

\* fetchConversation, the participants query and setParticipants (a set
\* state of an unmounted component does nothing).
FetchParticipants ==
  /\ screen.pc = "participants"
  /\ screen' = [screen EXCEPT
       !.pc = "messages",
       !.parts = SetState(screen.sub, @,
                   {p.user_id : p \in {q \in participants :
                      q.conversation_id = screen.conv /\ ParticipantsSelectPolicy(Me, q)}})]
  /\ UNCHANGED <<inbox, store, now, rpc, last, events, marks>>

\* .order('created_at', { ascending: false }): the newest row first.
RECURSIVE OrderByCreatedAt_Descending(_)
OrderByCreatedAt_Descending(ids) ==
  IF ids = {} THEN <<>>
  ELSE LET first == CHOOSE i \in ids : \A j \in ids :
                      \/ messages[i].created_at > messages[j].created_at
                      \/ messages[i].created_at = messages[j].created_at /\ i >= j
       IN  <<first>> \o OrderByCreatedAt_Descending(ids \ {first})

\* .order('created_at', { ascending: true }) over a set of message ids.
RECURSIVE OrderByCreatedAt(_)
OrderByCreatedAt(ids) ==
  IF ids = {} THEN <<>>
  ELSE LET first == CHOOSE i \in ids : \A j \in ids :
                      \/ messages[i].created_at < messages[j].created_at
                      \/ messages[i].created_at = messages[j].created_at /\ i <= j
       IN  <<first>> \o OrderByCreatedAt(ids \ {first})

\* The rows .from('messages').select('*').eq('conversation_id', id) returns
\* to the caller.
SelectMessages(uid, c) ==
  OrderByCreatedAt({i \in MsgIds :
     messages[i].conversation_id = c /\ MessagesSelectPolicy(uid, messages[i])})

\* The copy of a row the screen keeps.
LocalCopy(i) == [id |-> i, read_at |-> messages[i].read_at]

RECURSIVE SelectSeqBy(_, _)
SelectSeqBy(s, keep) ==
  IF s = <<>> THEN <<>>
  ELSE IF Head(s) \in keep THEN <<Head(s)>> \o SelectSeqBy(Tail(s), keep)
  ELSE SelectSeqBy(Tail(s), keep)

\* A loop over every unread message of other users in the store, fetched
\* or not.
UnreadMessages_WholeStore(rows) ==
  OrderByCreatedAt({i \in MsgIds :
     messages[i].read_at = NULL /\ messages[i].sender_id # Me})

\* A loop over every row of the answer, without the filter.
UnreadMessages_NoFilter(rows) == [n \in DOMAIN rows |-> rows[n].id]

\* messagesData.filter((msg) => !msg.read_at && msg.sender_id !== session.user.id)
\* over the rows as they were returned; the ids of the rows kept.
UnreadMessages(rows) ==
  LET kept == SelectSeqBy(rows, {rows[n] : n \in {k \in DOMAIN rows :
                  rows[k].read_at = NULL /\ messages[rows[k].id].sender_id # Me}})
  IN  [n \in 1..Len(kept) |-> kept[n].id]

\* fetchConversation, the messages query as the store answers it: the rows
\* of that moment travel to the device.
QueryMessages ==
  LET ids == SelectMessages(Me, screen.conv)
  IN  /\ screen.pc = "messages"
      /\ screen' = [screen EXCEPT
           !.pc = "answer",
           !.rows = [n \in 1..Len(ids) |-> LocalCopy(ids[n])]]
      /\ UNCHANGED <<inbox, store, now, rpc, last, events, marks>>

\* fetchConversation resumed with the answer: setMessages(messagesData) and
\* the filter; with nothing to mark the function ends (setIsLoading(false)).
FetchMessages ==
  LET unread == UnreadMessages(screen.rows)
  IN  /\ screen.pc = "answer"
      /\ screen' = [screen EXCEPT
           !.local = SetState(screen.sub, @, screen.rows),
           !.rows = <<>>,
           !.unread = unread,
           !.k = 0,
           !.pc = IF unread = <<>> THEN "ready" ELSE "marking",
           !.isLoading = IF unread = <<>> THEN SetState(screen.sub, @, FALSE) ELSE @]
      /\ UNCHANGED <<inbox, store, now, rpc, last, events, marks>>

\* One turn of the loop: await markMessageAsRead(message.id), which sends
\* read_at: new Date().toISOString(); after the last one setIsLoading(false).
MarkNext ==
  /\ screen.pc = "marking"
  /\ messages' = UpdateReadAt(Me, messages, screen.unread[screen.k + 1], now)
  /\ inbox' = InboxAfterUpdate(UpdateReadAt(Me, messages, screen.unread[screen.k + 1], now))
  /\ screen' = [screen EXCEPT
       !.k = @ + 1,
       !.pc = IF screen.k + 1 = Len(screen.unread) THEN "ready" ELSE "marking",
       !.isLoading = IF screen.k + 1 = Len(screen.unread)
                       THEN SetState(screen.sub, @, FALSE)
                       ELSE @]
  /\ UNCHANGED <<conversations, participants, now, rpc, last, events, marks>>

\* The channel's insert handler: append payload.new, and for a message of
\* another user call markMessageAsRead without awaiting it.
HandleInsertEvent(m) ==
  /\ m \in events
  /\ events' = events \ {m}
  /\ screen' = [screen EXCEPT
       !.local = SetState(screen.sub, @, Append(@, [id |-> m, read_at |-> NULL]))]
  /\ marks' = IF messages[m].sender_id # Me
                THEN marks \cup {[id |-> m, t |-> now]}
                ELSE marks
  /\ UNCHANGED <<inbox, store, now, rpc, last>>

\* The update sent by the insert handler reaches the store.
MarkArrives(r) ==
  /\ r \in marks
  /\ marks' = marks \ {r}
  /\ messages' = UpdateReadAt(Me, messages, r.id, r.t)
  /\ inbox' = InboxAfterUpdate(UpdateReadAt(Me, messages, r.id, r.t))
  /\ UNCHANGED <<conversations, participants, now, rpc, last, screen, events>>

\* onChangeText={setNewMessage}; the input is rendered once isLoading is
\* false.
Type(text) ==
  /\ screen.sub
  /\ ~screen.isLoading
  /\ screen' = [screen EXCEPT !.draft = text]
  /\ UNCHANGED <<inbox, store, now, rpc, last, events, marks>>

\* handleSend up to the insert (the button is rendered once isLoading is
\* false and disabled while isSending): nothing is sent for a text that is
\* empty after trim(); otherwise setIsSending(true) and the insert leaves
\* with the trimmed text.
HandleSend ==
  /\ screen.sub
  /\ ~screen.isLoading
  /\ ~screen.isSending
  /\ screen' = [screen EXCEPT !.sending = JsTrim(screen.draft),
                              !.isSending = JsTrim(screen.draft) # <<>>]
  /\ UNCHANGED <<inbox, store, now, rpc, last, events, marks>>

\* setNewMessage('') moved to the finally block.
DraftAfterSend_AlwaysCleared(ok, draft) == <<>>

\* if (error) throw error; setNewMessage(''): the input after the insert
\* was answered.
DraftAfterSend(ok, draft) == IF ok THEN <<>> ELSE draft

\* The insert of handleSend reaches the store and handleSend resumes: the
\* input is cleared after a success; after an error it is kept and the
\* toast 'Failed to send message' is shown by the <Toast /> of the screen.
SendCompletes ==
  /\ screen.sending # <<>>
  /\ LET row == NewMessageRow(screen.conv, Me, screen.sending, now)
         ok == InsertAccepted(Me, row)
     IN  /\ InsertEffect(Me, row, ok)
         /\ screen' = [screen EXCEPT
              !.sending = <<>>,
              !.draft = SetState(screen.sub, @, DraftAfterSend(ok, @)),
              !.isSending = SetState(screen.sub, @, FALSE),
              !.toast = IF ok THEN @ ELSE screen.sub]
  /\ UNCHANGED <<participants, now, rpc, last, marks>>

\* The toast hides after its visibility time.
ToastHides ==
  /\ screen.toast
  /\ screen' = [screen EXCEPT !.toast = FALSE]
  /\ UNCHANGED <<inbox, store, now, rpc, last, events, marks>>

\* ------------------------------------------------------------------ system

Init ==
  /\ conversations = <<>>
  /\ participants = {}
  /\ messages = <<>>
  /\ now = 1
  /\ rpc = [u \in Users |-> Idle]
  /\ last = [op |-> "none"]
  /\ screen = Unmounted
  /\ events = {}
  /\ marks = {}
  /\ inbox = InboxOff

\* Calls of start_conversation by any users, in any interleaving.
NextResolver ==
  \/ \E u \in Users, o \in Users : StartConversationLookup(u, o)
  \/ \E u \in Users : StartConversationFinish(u)
  \/ \E u \in Users : StartConversationReturn(u)

SpecResolver == Init /\ [][NextResolver]_vars

\* Calls of start_conversation that do not overlap.
NextSerial ==
  \/ \E u \in Users, o \in Users : SerialLookup(u, o)
  \/ \E u \in Users : StartConversationFinish(u)
  \/ \E u \in Users : StartConversationReturn(u)

SpecSerial == Init /\ [][NextSerial]_vars

\* The store, any user's requests to it, and the followed device.
Next ==
  \/ Tick
  \/ \E u \in Users, o \in Users : StartConversation(u, o)
  \/ \E u \in Users, c \in 1..MaxChats, sender \in Users, x \in Contents :
       InsertMessage(u, c, sender, x)
  \/ \E u \in Users, m \in MsgIds, t \in 0..MaxTime : MarkRead(u, m, t)
  \/ \E o \in Users : HandlePress(o)
  \/ \E c \in ConvIds : Mount(c)
  \/ FetchParticipants
  \/ QueryMessages
  \/ FetchMessages
  \/ MarkNext
  \/ \E m \in MsgIds : HandleInsertEvent(m)
  \/ \E r \in marks : MarkArrives(r)
  \/ \E x \in Drafts : Type(x)
  \/ HandleSend
  \/ SendCompletes
  \/ ToastHides
  \/ Unmount

Spec == Init /\ [][Next]_vars

\* Calls of start_conversation one after the other, by any caller with any
\* argument.
NextCalls ==
  \E u \in Callers, o \in Targets : RpcStartConversation(u, o)

SpecCalls == Init /\ [][NextCalls]_vars

\* The operations on conversations and participants the backend offers a
\* client: the function and the participant insert.
NextBackend ==
  \/ \E u \in Callers, o \in Targets : RpcStartConversation(u, o)
  \/ \E u \in Callers, c \in 1..MaxConvs, w \in Targets : InsertParticipant(u, c, w)

SpecBackend == Init /\ [][NextBackend]_vars

\* The conversation list of the followed device, with the users creating
\* conversations and sending messages.
NextInbox ==
  \/ Tick
  \/ \E u \in Users, o \in Users : StartConversationAs(u, o, MaxConvs)
  \/ \E u \in Users, c \in 1..MaxConvs : InsertMessage(u, c, u, <<CH>>)
  \/ MountInbox
  \/ \E f \in 1..MaxFetches : InboxHandleEvent(f)
  \/ \E f \in 1..MaxFetches : InboxQuery(f)
  \/ \E f \in 1..MaxFetches, c \in ConvIds : InboxCount(f, c)
  \/ \E f \in 1..MaxFetches : InboxSet(f)

SpecInbox == Init /\ [][NextInbox]_vars

\* The conversation list of the followed device with calls of
\* fetchConversations that overlap: every event starts a call at once.
NextOverlap ==
  \/ Tick
  \/ \E u \in Users, o \in Users : StartConversation(u, o)
  \/ \E u \in Users, c \in 1..MaxChats : InsertMessage(u, c, u, <<CH>>)
  \/ MountInbox
  \/ \E f \in 1..MaxOverlap : InboxHandleEvent(f)
  \/ \E f \in 1..MaxOverlap : InboxQuery(f)
  \/ \E f \in 1..MaxOverlap, c \in ConvIds : InboxCount(f, c)
  \/ \E f \in 1..MaxOverlap : InboxSet(f)

SpecOverlap == Init /\ [][NextOverlap]_vars

\* Stores the requests are tried on: MaxChats conversations of two or three
\* participants each, and up to MaxMsgs messages sent by participants, read
\* or unread.
StoreRows ==
  [conversation_id : 1..MaxChats, sender_id : Users, content : {<<CH>>},
   created_at : {1}, read_at : {NULL, 1}]

StoreMessages ==
  UNION {[1..n -> StoreRows] : n \in 0..MaxMsgs}

InitStore ==
  /\ conversations = [c \in 1..MaxChats |-> [created_at |-> 1, updated_at |-> 1]]
  /\ participants \in SUBSET {ParticipantRow(c, u) : c \in 1..MaxChats, u \in Users}
  /\ \A c \in 1..MaxChats : Cardinality(ParticipantsOf(c)) >= 2
  /\ messages \in StoreMessages
  /\ \A m \in MsgIds : IsParticipant(messages[m].conversation_id, messages[m].sender_id)
  /\ now = MaxTime
  /\ rpc = [u \in Users |-> Idle]
  /\ last = [op |-> "none"]
  /\ screen = Unmounted
  /\ events = {}
  /\ marks = {}
  /\ inbox = InboxOff

\* One request of any user to any of these stores.
NextStore ==
  \/ \E u \in Users, c \in 1..MaxChats, sender \in Users, x \in Contents :
       ApiInsert(u, c, sender, x)
  \/ \E u \in Users, m \in MsgIds, t \in 0..MaxTime : ApiMarkRead(u, m, t)
  \/ \E u \in Users, c \in ConvIds : ApiUnreadCount(u, c)
  \/ \E u \in Callers, t \in {"conversations", "conversation_participants", "messages"} :
       ApiSelect(u, t)
  \/ \E u \in Callers, m \in MsgIds, x \in Contents : ApiUpdateContent(u, m, x)
  \/ \E u \in Callers, m \in MsgIds : ApiDelete(u, m)
  \/ \E u \in Callers, o \in Users : ApiStartConversation(u, o)

SpecStore == InitStore /\ [][NextStore]_vars

\* The followed device opening conversations of a populated store, the
\* users sending messages, and one mark-read request of any user.
NextOpened ==
  \/ \E c \in ConvIds : Mount(c)
  \/ FetchParticipants
  \/ QueryMessages
  \/ FetchMessages
  \/ MarkNext
  \/ \E u \in Users, c \in 1..MaxChats : InsertMessage(u, c, u, <<CH>>)
  \/ \E m \in MsgIds : HandleInsertEvent(m)
  \/ \E r \in marks : MarkArrives(r)
  \/ \E u \in Users, m \in MsgIds : ApiMarkRead(u, m, now)
  \/ Unmount

SpecOpened == InitStore /\ [][NextOpened]_vars

\* ------------------------------------------------------------------ C1
SharedConvs(a, b) == {c \in ConvIds : IsParticipant(c, a) /\ IsParticipant(c, b)}

\* C1: when A has called start_conversation(B) and B has called
\* start_conversation(A), in any interleaving of their steps, both calls have
\* returned the same conversation id, and one conversation row with two
\* participant rows exists for the pair.
C1_ConcurrentCallsAgree ==
  \A a \in Users, b \in Users :
    (a # b /\ rpc[a].pc = "done" /\ rpc[a].other = b
           /\ rpc[b].pc = "done" /\ rpc[b].other = a)
    => /\ rpc[a].v = rpc[b].v
       /\ Cardinality(SharedConvs(a, b)) = 1
       /\ Cardinality({p \in participants : p.conversation_id \in SharedConvs(a, b)}) = 2

\* ------------------------------------------------------------------ C2
\* C2: when calls do not overlap, a call for a pair of distinct users that
\* already has a conversation returns the id of that one conversation and
\* inserts no conversation row and no participant row.
C2_SerialIdempotent ==
  [][\A u \in Users :
       (/\ rpc[u].pc = "looked"
        /\ rpc'[u].pc # "looked"
        /\ rpc[u].other # u
        /\ SharedConvs(u, rpc[u].other) # {})
       => /\ rpc'[u].pc = "done"
          /\ SharedConvs(u, rpc[u].other) = {rpc'[u].v}
          /\ conversations' = conversations
          /\ participants' = participants]_vars

\* Both users of a pair have called, one after the other, and got the same
\* id: the second call found the conversation the first one had inserted.
C2_Witness ==
  \E u \in Users, o \in Users :
    /\ u # o
    /\ rpc[u].pc = "done" /\ rpc[u].other = o
    /\ rpc[o].pc = "done" /\ rpc[o].other = u
    /\ rpc[u].v = rpc[o].v
    /\ SharedConvs(u, o) = {rpc[u].v}

\* ------------------------------------------------------------------ C3
\* C3: in every step (a send, a mark-read by any user with any value, a
\* mark-read of the insert handler or of the fetch loop, a fetch) the read_at
\* of a message changes only from null to a time, never back and never from
\* one time to another.
C3_ReadAtOnlySet ==
  [][\A m \in MsgIds :
       messages'[m].read_at # messages[m].read_at
       => (messages[m].read_at = NULL /\ messages'[m].read_at # NULL)]_vars

\* The fetch loop has sent its mark-read requests for the messages of the
\* other participant and they have been answered.
C3_Witness ==
  /\ screen.pc = "ready"
  /\ screen.k >= 1
  /\ screen.k = Len(screen.unread)

\* ------------------------------------------------------------------ C4
\* C4: once fetchConversation has ended, every message it found unread and
\* sent by the other participant has a read_at in the store.
C4_OpenedMeansRead ==
  screen.pc = "ready"
  => \A n \in 1..Len(screen.unread) : messages[screen.unread[n]].read_at # NULL

\* ------------------------------------------------------------------ C5
\* C5: the count the list computes for caller U and conversation c is the
\* number of messages of c that U did not send and that have no read_at.
C5_UnreadCountExact ==
  last.op = "count"
  => last.count = Cardinality({m \in MsgIds :
                     /\ messages[m].conversation_id = last.conv
                     /\ messages[m].sender_id # last.caller
                     /\ messages[m].read_at = NULL})

\* A count of one in a conversation that also holds a message that is not
\* counted, and a message the caller did not send that is already read.
C5_Witness ==
  /\ last.op = "count"
  /\ last.count = 1
  /\ \E m \in MsgIds :
       /\ messages[m].conversation_id = last.conv
       /\ messages[m].sender_id # last.caller
       /\ messages[m].read_at # NULL

\* ------------------------------------------------------------------ C6
\* C6: no message row has a content that is empty or white space only, and
\* handleSend sends no insert with such a content.
C6_NoBlankMessage ==
  /\ \A m \in MsgIds : JsTrim(messages[m].content) # <<>>
  /\ JsTrim(screen.sending) = <<>> => screen.sending = <<>>

\* ------------------------------------------------------------------ C7
\* C7: after a message has been inserted, updated_at of its conversation is
\* not earlier than the created_at of the message.
C7_InsertTouchesConversation ==
  \A m \in MsgIds :
    conversations[messages[m].conversation_id].updated_at >= messages[m].created_at

\* ------------------------------------------------------------------ C8
\* C8: an insert is accepted only with sender_id equal to the caller and the
\* caller a participant of the conversation; any other insert is rejected
\* and leaves the messages table as it was.
C8_InsertNeedsSelfAndMembership ==
  [][last'.op = "insert"
     => LET allowed == /\ last'.sender = last'.caller
                       /\ IsParticipant(last'.conv, last'.caller)
        IN  /\ last'.ok => allowed
            /\ ~allowed => (~last'.ok /\ messages' = messages)]_vars

\* A participant's insert of a valid text under another user's sender_id
\* was rejected.
C8_Witness ==
  /\ last.op = "insert"
  /\ ~last.ok
  /\ ContentNotEmpty(last.content)
  /\ IsParticipant(last.conv, last.caller)
  /\ last.sender # last.caller
  /\ IsParticipant(last.conv, last.sender)

\* ------------------------------------------------------------------ C9
\* C9: a mark-read request of the sender of the message, or of a user who is
\* no participant of its conversation, does not change read_at.
C9_MarkReadOnlyByRecipient ==
  [][(/\ last'.op = "mark"
      /\ \/ last'.caller = messages[last'.id].sender_id
         \/ ~IsParticipant(messages[last'.id].conversation_id, last'.caller))
     => messages'[last'.id].read_at = messages[last'.id].read_at]_vars

\* The sender has asked to mark their own unread message.
C9_Witness ==
  /\ last.op = "mark"
  /\ last.caller = messages[last.id].sender_id
  /\ last.was = NULL

\* ------------------------------------------------------------------ C10
\* C10: a mark-read request for a message that has a read_at leaves that
\* read_at as it was.
C10_MarkReadKeepsReadAt ==
  [][(last'.op = "mark" /\ messages[last'.id].read_at # NULL)
     => messages'[last'.id].read_at = messages[last'.id].read_at]_vars

\* The recipient has asked to mark a message that was already read.
C10_Witness ==
  /\ last.op = "mark"
  /\ last.was # NULL
  /\ last.caller # messages[last.id].sender_id
  /\ IsParticipant(messages[last.id].conversation_id, last.caller)

\* ------------------------------------------------------------------ C11
\* C11: a call of start_conversation without a session fails and inserts no
\* conversation row and no participant row.
C11_AnonymousCallFails ==
  [][(last'.op = "start" /\ last'.caller = NoUser)
     => /\ last'.v = NULL
        /\ conversations' = conversations
        /\ participants' = participants]_vars

\* ------------------------------------------------------------------ C12
\* C12: a call of start_conversation whose argument is the id of no user
\* fails and leaves conversations and participants as they were.
C12_UnknownTargetFails ==
  [][(last'.op = "start" /\ last'.target \notin Users)
     => /\ last'.v = NULL
        /\ conversations' = conversations
        /\ participants' = participants]_vars

\* ------------------------------------------------------------------ C13
\* C13: the conversation start_conversation(target) returns to caller C has
\* exactly C and target as participants, also when target is C.
C13_ReturnedConversationIsThePair ==
  [][(last'.op = "start" /\ last'.v # NULL)
     => {p.user_id : p \in {q \in participants' : q.conversation_id = last'.v}}
          = {last'.caller, last'.target}]_vars

\* ------------------------------------------------------------------ C14
\* C14: whatever calls of start_conversation and participant inserts the
\* policies admit have happened, every conversation has exactly two
\* participants.
C14_ExactlyTwoParticipants ==
  \A c \in ConvIds : Cardinality(ParticipantsOf(c)) = 2

\* ------------------------------------------------------------------ C15
\* C15: every conversation row, participant row and message row a select
\* returns belongs to a conversation the caller is a participant of.
C15_SelectShowsOwnConversationsOnly ==
  last.op = "select"
  => \A c \in last.convs : last.caller # NoUser /\ IsParticipant(c, last.caller)

\* A signed-in user who is no participant of a conversation that has
\* messages selected from messages and got no row.
C15_Witness ==
  /\ last.op = "select"
  /\ last.table = "messages"
  /\ last.caller \in Users
  /\ \E m \in MsgIds : ~IsParticipant(messages[m].conversation_id, last.caller)
  /\ last.convs = {}

\* ------------------------------------------------------------------ C16
\* C16: the local message list of the conversation screen holds every
\* message id at most once.
C16_LocalListHasNoDuplicate ==
  \A i \in 1..Len(screen.local), j \in 1..Len(screen.local) :
    i # j => screen.local[i].id # screen.local[j].id

\* ------------------------------------------------------------------ C17
\* C17: the conversation list of the caller is in descending order of
\* updated_at and holds only conversations the caller is a participant of.
C17_ListOrderedAndOwn ==
  /\ \A i \in DOMAIN inbox.shown, j \in DOMAIN inbox.shown :
       i < j => inbox.shown[i].updated_at >= inbox.shown[j].updated_at
  /\ \A i \in DOMAIN inbox.shown : IsParticipant(inbox.shown[i].id, Me)

\* The list shows two conversations with different updated_at, the first of
\* which was created later.
C17_Witness ==
  /\ Len(inbox.shown) = 2
  /\ inbox.shown[1].updated_at > inbox.shown[2].updated_at
  /\ inbox.shown[1].id > inbox.shown[2].id

\* ------------------------------------------------------------------ C18
\* C18: when the list query is answered, latest_message of every row is the
\* message of that conversation with the greatest created_at, and null only
\* for a conversation without messages.
C18_LatestMessageIsNewest ==
  [][\A f \in 1..MaxFetches :
       (inbox.fetches[f].pc = "query" /\ inbox'.fetches[f].pc = "counts")
       => \A n \in DOMAIN inbox'.fetches[f].data :
            LET row == inbox'.fetches[f].data[n]
                own == {m \in MsgIds : messages[m].conversation_id = row.id}
            IN  IF own = {} THEN row.latest_message = NULL
                ELSE /\ row.latest_message \in own
                     /\ \A m \in own : messages[m].created_at
                                          <= messages[row.latest_message].created_at]_vars

\* ------------------------------------------------------------------ C19
\* C19: once the mounted list has nothing left to do (no event waiting, no
\* fetchConversations in flight), it shows every conversation of the
\* caller, also one that has no message yet.
C19_ListHoldsEveryConversation ==
  (/\ inbox.on
   /\ ~inbox.isLoading
   /\ inbox.notes = 0
   /\ \A f \in 1..MaxFetches : inbox.fetches[f].pc = "idle")
  => ConvsOf(Me) \subseteq {inbox.shown[n].id : n \in DOMAIN inbox.shown}

\* ------------------------------------------------------------------ C20
\* C20: once the cleanup of the conversation screen has run, no insert
\* event waits for its handler, and no step, as long as the screen is not
\* opened again, appends to its list or adds a mark-read request of the
\* handler.
C20_UnsubscribedHandlesNothing ==
  [][(~screen.sub /\ ~screen'.sub)
     => /\ events' = {}
        /\ screen'.local = screen.local
        /\ marks' \subseteq marks]_vars

\* The screen of a conversation is unmounted, the conversation holds a
\* message of the other participant that the screen has not marked, and no
\* event waits.
C20_Witness ==
  /\ ~screen.sub
  /\ screen.conv # NULL
  /\ events = {}
  /\ \E m \in MsgIds :
       /\ messages[m].conversation_id = screen.conv
       /\ messages[m].sender_id # Me
       /\ \A n \in 1..Len(screen.unread) : screen.unread[n] # m
       /\ \A r \in marks : r.id # m

C22_FailedSendKeepsInput ==
  [][/\ (screen.sending # <<>> /\ screen'.sending = <<>> /\ messages' = messages)
        => (screen'.draft = screen.draft /\ screen'.local = screen.local)
     /\ (screen.sub /\ screen'.sub /\ screen.draft # <<>> /\ screen'.draft = <<>>)
        => /\ Len(messages') = Len(messages) + 1
           /\ messages'[Len(messages')].sender_id = Me
           /\ messages'[Len(messages')].content = screen.sending]_vars

\* A send of the mounted screen has failed: its toast is shown, the text
\* is still in the input and nothing was stored.
C22_Witness ==
  /\ screen.sub
  /\ screen.toast
  /\ ~screen.isSending
  /\ JsTrim(screen.draft) # <<>>
  /\ \A m \in MsgIds : messages[m].sender_id # Me

\* ------------------------------------------------------------------ C23
\* The message ids in the local list of the screen.
LocalIds == {screen.local[n].id : n \in DOMAIN screen.local}

\* C23: every mark-read request the screen sends is for a stored message of
\* its conversation that it has observed: the handler's request for the
\* message of the event it handles, the loop's request for a message the
\* fetch returned (which a mounted screen has in its list).
C23_MarkReadAfterObserving ==
  [][/\ \A r \in marks' \ marks :
          /\ r.id \in events
          /\ r.id \in MsgIds
          /\ messages[r.id].conversation_id = screen.conv
     /\ (screen.pc = "marking" /\ screen'.k = screen.k + 1)
        => LET m == screen.unread[screen.k + 1]
           IN  /\ m \in MsgIds
               /\ messages[m].conversation_id = screen.conv
               /\ screen.sub => m \in LocalIds]_vars

\* The mounted screen has sent the mark-read of a message it got by an
\* insert event and not by its fetch, and the loop has sent one as well.
C23_Witness ==
  /\ screen.sub
  /\ screen.k >= 1
  /\ \E r \in marks :
       /\ r.id \in LocalIds
       /\ \A n \in 1..Len(screen.unread) : screen.unread[n] # r.id

\* ------------------------------------------------------------------ C24
\* C24: no request of a client (insert, mark-read, edit, delete,
\* start_conversation, select, count) removes a message row or changes the
\* content, sender_id, conversation_id or created_at of one, and a select
\* or a count changes no row of any table.
C24_MessagesAppendOnly ==
  [][/\ Len(messages') >= Len(messages)
     /\ \A m \in MsgIds :
          /\ messages'[m].content = messages[m].content
          /\ messages'[m].sender_id = messages[m].sender_id
          /\ messages'[m].conversation_id = messages[m].conversation_id
          /\ messages'[m].created_at = messages[m].created_at
     /\ last'.op \in {"select", "count"} => store' = store]_vars

\* The sender of a message has asked to delete it.
C24_Witness ==
  /\ last.op = "delete"
  /\ last.id \in MsgIds
  /\ messages[last.id].sender_id = last.caller

\* ------------------------------------------------------------------ C25
\* C25: the rows the messages query of fetchConversation returns are in
\* non-decreasing order of created_at and are, each once, exactly the
\* messages of the conversation that the caller, as a participant, can see
\* when the store answers; these rows are what setMessages loads.
C25_FetchOrderedAndExact ==
  [][/\ (screen.pc = "messages" /\ screen'.pc = "answer") =>
          LET got == screen'.rows
          IN  /\ \A a, b \in DOMAIN got :
                    a < b => /\ got[a].id # got[b].id
                             /\ messages[got[a].id].created_at
                                  <= messages[got[b].id].created_at
              /\ {got[n].id : n \in DOMAIN got} =
                    {m \in MsgIds : /\ messages[m].conversation_id = screen.conv
                                    /\ IsParticipant(screen.conv, Me)}
              /\ \A n \in DOMAIN got : got[n].read_at = messages[got[n].id].read_at
     /\ (screen.pc = "answer" /\ screen'.pc # "answer" /\ screen.sub) =>
          screen'.local = screen.rows]_vars

\* A mounted screen has loaded two messages with different created_at.
C25_Witness ==
  /\ screen.sub
  /\ screen.pc \in {"marking", "ready"}
  /\ Len(screen.local) = 2
  /\ screen.local[1].id # screen.local[2].id
  /\ messages[screen.local[1].id].created_at < messages[screen.local[2].id].created_at

\* ------------------------------------------------------------------ C26
\* C26: in every state of a mounted screen the rendered list (messages.map
\* over the local list) is in non-decreasing order of created_at.
C26_RenderedListSorted ==
  screen.sub =>
    \A a, b \in DOMAIN screen.local :
      a < b => messages[screen.local[a].id].created_at
                 <= messages[screen.local[b].id].created_at

\* ------------------------------------------------------------------ C27
\* C27: a message whose insert event the mounted screen has handled (it was
\* inserted after the channel was subscribed) is in the local list once
\* the fetch has completed: the answer of the fetch removes no message the
\* list already holds.
C27_NoMessageLost ==
  [][(/\ screen.sub
      /\ screen'.sub
      /\ screen.pc = "answer"
      /\ screen'.pc \in {"marking", "ready"})
     => LocalIds \subseteq {screen'.local[n].id : n \in DOMAIN screen'.local}]_vars

\* ------------------------------------------------------------------ C28
\* C28: when a call of fetchConversations sets the list and no call is in
\* flight after it, that call is the one that was started last.
C28_LatestFetchWins ==
  [][\A f \in 1..MaxOverlap :
       (/\ inbox.fetches[f].pc = "counts"
        /\ inbox'.fetches[f].pc = "idle"
        /\ \A g \in 1..MaxOverlap : inbox'.fetches[g].pc = "idle")
       => f = inbox.latest]_vars

\* ------------------------------------------------------------------ C29
\* C29: every mark-read request of the screen is for a message another
\* user sent, and the requests of fetchConversation are for rows that the
\* fetch returned with a null read_at.
C29_MarksOnlyUnreadOfOthers ==
  [][/\ \A r \in marks' \ marks : messages[r.id].sender_id # Me
     /\ (screen.pc = "marking" /\ screen'.k = screen.k + 1) =>
          messages[screen.unread[screen.k + 1]].sender_id # Me
     /\ (screen.pc = "answer" /\ screen'.pc # "answer") =>
          \A n \in DOMAIN screen'.unread :
            \E k \in DOMAIN screen.rows :
              /\ screen.rows[k].id = screen'.unread[n]
              /\ screen.rows[k].read_at = NULL
              /\ messages[screen.rows[k].id].sender_id # Me]_vars

\* The screen has sent a mark-read from its loop after a fetch that also
\* returned a message it skipped: one already read, or one of its own.
C29_Witness ==
  /\ screen.sub
  /\ screen.k >= 1
  /\ \E n \in DOMAIN screen.local :
       /\ \A k \in DOMAIN screen.unread : screen.unread[k] # screen.local[n].id
       /\ \/ screen.local[n].read_at # NULL
          \/ messages[screen.local[n].id].sender_id = Me
  /\ \E n \in DOMAIN screen.local :
       /\ screen.local[n].read_at # NULL
       /\ messages[screen.local[n].id].sender_id # Me

====
